---- MODULE Spec2Model ----
(***************************************************************************)
(* A model of the corpus search tool of src/corpora.py: compile_corpus     *)
(* (the loader and its cache), the query validation and compilation of the *)
(* SEARCH EXECUTION section, find_matches (counting, range filter, display *)
(* capture and highlighting) and the sorted tables of the statistics tabs. *)
(*                                                                         *)
(* Python strings are sequences of one-character strings, so that the      *)
(* regular expressions, str.lower, str.split and re.sub are computed       *)
(* character by character as the interpreter computes them.                *)
(***************************************************************************)
EXTENDS Integers, Sequences, FiniteSets, TLC

VARIABLES
    files,             \* DATA_FOLDER: source name -> the .tsv file (or none)
    cache,             \* st.cache_data store of compile_corpus
    pc,                \* position of the script run
    source,            \* st.radio selection
    query,             \* st.text_input(...).strip()
    complexity_range,  \* st.select_slider value <<lower, upper>>
    ignorecase,        \* flag of the compiled pattern handed to find_matches
    file_read,         \* the run opened the source file
    corpus_data,       \* compile_corpus(source)[0]
    corpus_vocab,      \* compile_corpus(source)[1]
    vocab_table,       \* rows of the CORPUS VOCABULARY TABLE
    searched,          \* find_matches was called in this run
    dataset_matches,   \* find_matches(...)[0]
    in_range_matches,  \* find_matches(...)[1]
    entry_texts,       \* find_matches(...)[2]
    message,           \* what the results column shows
    stats_table,       \* rows of the WHOLE DATASET STATS table
    range_stats_table, \* rows of the COMPLEXITY RANGE STATS table
    divisions          \* the divisions the run has evaluated for the "%" columns

vars == <<files, cache, pc, source, query, complexity_range, ignorecase, file_read,
          corpus_data, corpus_vocab, vocab_table, searched, dataset_matches,
          in_range_matches, entry_texts, message, stats_table, range_stats_table,
          divisions>>

-----------------------------------------------------------------------------
(* Bounds of the model *)

\* rows after the header in the generated source file
MaxRows == 2
\* scores and slider positions are 0..MaxScore (the slider's grid, coarsened)
MaxScore == 1
\* MAX_RETURNS of src/corpora.py:18 (1000 there), scaled to the model's corpora
MAX_RETURNS == 2

CACHE_SIZE == 1

-----------------------------------------------------------------------------
(* Characters *)

\* the printable ASCII characters in code-point order, from 32 (space) to 126
\* (the grave accent, 96, is not a character of the model: its place is kept)
Ascii ==
    << " ", "!", "\"", "#", "$", "%", "&", "'", "(", ")", "*", "+", ",", "-", ".", "/",
       "0", "1", "2", "3", "4", "5", "6", "7", "8", "9", ":", ";", "<", "=", ">", "?",
       "@", "A", "B", "C", "D", "E", "F", "G", "H", "I", "J", "K", "L", "M", "N", "O",
       "P", "Q", "R", "S", "T", "U", "V", "W", "X", "Y", "Z", "[", "\\", "]", "^", "_",
       "(96)", "a", "b", "c", "d", "e", "f", "g", "h", "i", "j", "k", "l", "m", "n", "o",
       "p", "q", "r", "s", "t", "u", "v", "w", "x", "y", "z", "{", "|", "}", "~" >>

Chars == {Ascii[i] : i \in 1..Len(Ascii)}

OrdTable == [c \in Chars |-> 31 + CHOOSE i \in 1..Len(Ascii) : Ascii[i] = c]

Ord(c) == OrdTable[c]

Chr(n) == Ascii[n - 31]

IsUpper(c) == Ord(c) \in 65..90

IsLowerCh(c) == Ord(c) \in 97..122

IsAlphaCh(c) == IsUpper(c) \/ IsLowerCh(c)

IsDigit(c) == Ord(c) \in 48..57

\* \w of the re module on ASCII text
IsWordCh(c) == IsAlphaCh(c) \/ IsDigit(c) \/ c = "_"

\* whitespace of str.split() and str.strip()
IsSpace(c) == c \in {" "}

LowerCh(c) == IF IsUpper(c) THEN Chr(Ord(c) + 32) ELSE c

\* str.lower()
Lower(s) == [i \in 1..Len(s) |-> LowerCh(s[i])]

\* str.isalpha(): non-empty and every character alphabetic
IsAlpha(s) == Len(s) > 0 /\ \A i \in 1..Len(s) : IsAlphaCh(s[i])

\* comparison of Python strings: lexicographic by code point
RECURSIVE StrLess(_, _)
StrLess(a, b) ==
    IF Len(b) = 0 THEN FALSE
    ELSE IF Len(a) = 0 THEN TRUE
    ELSE IF a[1] # b[1] THEN Ord(a[1]) < Ord(b[1])
    ELSE StrLess(Tail(a), Tail(b))

\* str.strip()
RECURSIVE LStrip(_)
LStrip(s) == IF Len(s) > 0 /\ IsSpace(s[1]) THEN LStrip(Tail(s)) ELSE s

RECURSIVE RStrip(_)
RStrip(s) ==
    IF Len(s) > 0 /\ IsSpace(s[Len(s)]) THEN RStrip(SubSeq(s, 1, Len(s) - 1)) ELSE s

Strip(s) == RStrip(LStrip(s))

\* s[i:].startswith(p), i a 0-based offset
StartsWithAt(s, i, p) ==
    /\ i + Len(p) <= Len(s)
    /\ \A j \in 1..Len(p) : s[i + j] = p[j]

-----------------------------------------------------------------------------
(* Counter: a function from the keys seen to their counts *)

EmptyCounter == [k \in {} |-> 0]

\* counter[key] += 1
Inc(counter, key) ==
    [k \in DOMAIN counter \cup {key} |->
        IF k = key
        THEN (IF key \in DOMAIN counter THEN counter[key] ELSE 0) + 1
        ELSE counter[k]]

\* sum(counter.values())
RECURSIVE SumValues(_)
SumValues(counter) ==
    IF DOMAIN counter = {} THEN 0
    ELSE LET k == CHOOSE x \in DOMAIN counter : TRUE
         IN  counter[k] + SumValues([x \in DOMAIN counter \ {k} |-> counter[x]])

\* [round(100*(value/divisor), 2) or "<0.01" for value in counter.values()]:
\* one division for each value of the counter, none for an empty counter
PercentColumn(counter, divisor) ==
    {[dividend |-> counter[k], divisor |-> divisor] : k \in DOMAIN counter}

\* set(seq)
SetOf(seq) == {seq[i] : i \in 1..Len(seq)}

-----------------------------------------------------------------------------
(* The search pattern: validation, compilation, matching *)

\* the character class of re.search(r'[\\\(\)\[\]\?\$\+]', query)
ProhibitedChars == {"\\", "(", ")", "[", "]", "?", "$", "+"}

HasProhibitedChar(q) == \E i \in 1..Len(q) : q[i] \in ProhibitedChars

\* query in ["*", "^"]
IsBareWildcard(q) == q \in {<<"*">>, <<"^">>}

\* the class the wildcard expands to, after the second replace has turned its
\* "\." into "\\.": [\w",'\-\<\+\\.\\/:] (the two curly quotes are not ASCII)
InWildcardClass(c) ==
    IsWordCh(c) \/ c \in {"\"", ",", "'", "-", "<", "+", "\\", ".", "/", ":"}

\* a repetition {n} of the pattern language at position i of the query
IsRepeatAt(q, i) ==
    /\ q[i] = "{"
    /\ \E j \in (i + 2)..Len(q) :
          /\ q[j] = "}"
          /\ \A k \in (i + 1)..(j - 1) : IsDigit(q[k])

\* re.compile raises re.error when a repetition has nothing to repeat (it
\* follows the leading \b, "^" or "|") or repeats the + of an expanded "*"
CompileRaises(q) ==
    \E i \in 1..Len(q) :
        /\ IsRepeatAt(q, i)
        /\ IF i = 1 THEN TRUE ELSE q[i - 1] \in {"^", "|", "*"}

\* query.replace("*", <class>+).replace(".", "\.") as the elements of the
\* pattern: "*" is one or more class characters, "^" the start of the text,
\* "." a literal period; the other characters of the queries that compile
\* here are letters and stand for themselves
PatternElement(c) ==
    IF c = "*" THEN [kind |-> "class", ch |-> c]
    ELSE IF c = "^" THEN [kind |-> "bol", ch |-> c]
    ELSE [kind |-> "lit", ch |-> c]

\* re.compile(r"\b" + query + r"\b", flags): the word boundaries are part of
\* the matcher below
CompilePattern(q, flag) ==
    [elems |-> [i \in 1..Len(q) |-> PatternElement(q[i])], ignorecase |-> flag]

\* \b at offset i of t: exactly one of the neighbours is a word character
WordBoundary(t, i) ==
    LET before == i >= 1 /\ IsWordCh(t[i])
        after  == i < Len(t) /\ IsWordCh(t[i + 1])
    IN  before # after

LitEq(re, a, b) == IF re.ignorecase THEN LowerCh(a) = LowerCh(b) ELSE a = b

\* the longest run of class characters of t from offset i
RECURSIVE ClassRun(_, _)
ClassRun(t, i) ==
    IF i < Len(t) /\ InWildcardClass(t[i + 1]) THEN 1 + ClassRun(t, i + 1) ELSE 0

\* the backtracking matcher: the end offset of the match of elements k.. of re
\* at offset i of t followed by \b, or -1; a class takes the longest run first
RECURSIVE MatchElems(_, _, _, _)
RECURSIVE MatchClass(_, _, _, _, _)
MatchElems(re, t, k, i) ==
    IF k > Len(re.elems) THEN (IF WordBoundary(t, i) THEN i ELSE -1)
    ELSE LET e == re.elems[k]
         IN  CASE e.kind = "lit" ->
                    IF i < Len(t) /\ LitEq(re, t[i + 1], e.ch)
                    THEN MatchElems(re, t, k + 1, i + 1) ELSE -1
               [] e.kind = "bol" ->
                    IF i = 0 THEN MatchElems(re, t, k + 1, i) ELSE -1
               [] e.kind = "class" -> MatchClass(re, t, k, i, ClassRun(t, i))

MatchClass(re, t, k, i, n) ==
    IF n < 1 THEN -1
    ELSE LET r == MatchElems(re, t, k + 1, i + n)
         IN  IF r >= 0 THEN r ELSE MatchClass(re, t, k, i, n - 1)

\* pattern.match at offset s, the leading \b included
MatchAt(re, t, s) == IF WordBoundary(t, s) THEN MatchElems(re, t, 1, s) ELSE -1

\* re.findall(pattern, t): the non-overlapping matches, left to right
RECURSIVE FindAllFrom(_, _, _)
FindAllFrom(re, t, s) ==
    IF s > Len(t) THEN <<>>
    ELSE LET e == MatchAt(re, t, s)
         IN  IF e < 0 THEN FindAllFrom(re, t, s + 1)
             ELSE <<SubSeq(t, s + 1, e)>> \o FindAllFrom(re, t, IF e = s THEN s + 1 ELSE e)

FindAll(re, t) == FindAllFrom(re, t, 0)

-----------------------------------------------------------------------------
(* Highlighting: re.sub(r"\b" + m + r"\b", OPEN + m + CLOSE, text) *)

\* '<font color="red"><b>'
OPEN_TAG ==
    << "<", "f", "o", "n", "t", " ", "c", "o", "l", "o", "r", "=", "\"", "r", "e", "d",
       "\"", ">", "<", "b", ">" >>

\* "</b></font>"
CLOSE_TAG == << "<", "/", "b", ">", "<", "/", "f", "o", "n", "t", ">" >>

\* the matched string m is used as a pattern, unescaped and case-sensitive:
\* its "." matches any character, every other character of the model's texts
\* stands for itself
SubMatchAt(m, t, i) ==
    /\ i + Len(m) <= Len(t)
    /\ WordBoundary(t, i)
    /\ \A j \in 1..Len(m) : m[j] = "." \/ m[j] = t[i + j]
    /\ WordBoundary(t, i + Len(m))

RECURSIVE SubFrom(_, _, _)
SubFrom(m, t, i) ==
    IF i > Len(t) THEN <<>>
    ELSE IF SubMatchAt(m, t, i)
         THEN OPEN_TAG \o m \o CLOSE_TAG \o
              (IF Len(m) = 0
               THEN (IF i < Len(t) THEN <<t[i + 1]>> ELSE <<>>) \o SubFrom(m, t, i + 1)
               ELSE SubFrom(m, t, i + Len(m)))
         ELSE (IF i < Len(t) THEN <<t[i + 1]>> ELSE <<>>) \o SubFrom(m, t, i + 1)

Highlight(m, t) == SubFrom(m, t, 0)

\* the loop "for m in set(match): text = re.sub(...)" for one iteration order
RECURSIVE HighlightAll(_, _)
HighlightAll(order, t) ==
    IF Len(order) = 0 THEN t ELSE HighlightAll(Tail(order), Highlight(order[1], t))

\* the iteration orders of a Python set of strings: any order of its elements
RECURSIVE Orders(_)
Orders(S) ==
    IF S = {} THEN {<<>>}
    ELSE UNION {{<<m>> \o o : o \in Orders(S \ {m})} : m \in S}

-----------------------------------------------------------------------------
(* compile_corpus *)

\* the class of punctuation = re.compile(r'[,;!/:\(\)\.\?"\[\]]')
PunctuationChars == {",", ";", "!", "/", ":", "(", ")", ".", "?", "\"", "[", "]"}

\* re.sub(punctuation, "", text)
RECURSIVE StripPunctuation(_)
StripPunctuation(t) ==
    IF Len(t) = 0 THEN <<>>
    ELSE (IF t[1] \in PunctuationChars THEN <<>> ELSE <<t[1]>>) \o StripPunctuation(Tail(t))

\* str.split(): the maximal runs of non-whitespace characters
RECURSIVE SplitFrom(_, _, _)
SplitFrom(t, i, word) ==
    IF i > Len(t) THEN (IF Len(word) > 0 THEN <<word>> ELSE <<>>)
    ELSE IF IsSpace(t[i])
         THEN (IF Len(word) > 0 THEN <<word>> ELSE <<>>) \o SplitFrom(t, i + 1, <<>>)
         ELSE SplitFrom(t, i + 1, Append(word, t[i]))

Split(t) == SplitFrom(t, 1, <<>>)

\* for word in ...split(): if word.isalpha(): vocab[word.lower()] += 1
RECURSIVE CountWords(_, _)
CountWords(vocab, words) ==
    IF Len(words) = 0 THEN vocab
    ELSE CountWords(IF IsAlpha(words[1]) THEN Inc(vocab, Lower(words[1])) ELSE vocab,
                    Tail(words))

CountVocab(vocab, text) == CountWords(vocab, Split(StripPunctuation(text)))

\* line.split("\t") gives one column, so line[1] raises IndexError; float() of
\* a non-numeric column raises ValueError
RowRaises(row) == row.kind # "ok"

\* the loop over the lines after the header: the exception of a bad row leaves
\* the function without a return value
RECURSIVE CompileRows(_, _, _, _)
CompileRows(rows, i, data, vocab) ==
    IF i > Len(rows) THEN [raised |-> FALSE, corpus_data |-> data, vocab |-> vocab]
    ELSE IF RowRaises(rows[i])
         THEN [raised |-> TRUE, corpus_data |-> <<>>, vocab |-> EmptyCounter]
         ELSE CompileRows(rows, i + 1,
                          Append(data, [text |-> rows[i].text, score |-> rows[i].score]),
                          CountVocab(vocab, rows[i].text))

\* a variant that keeps what was read before the bad row
RECURSIVE CompileRowsPartial(_, _, _, _)
CompileRowsPartial(rows, i, data, vocab) ==
    IF i > Len(rows) \/ RowRaises(rows[i])
    THEN [raised |-> FALSE, corpus_data |-> data, vocab |-> vocab]
    ELSE CompileRowsPartial(rows, i + 1,
                            Append(data, [text |-> rows[i].text, score |-> rows[i].score]),
                            CountVocab(vocab, rows[i].text))

compile_corpus_partial(file) ==
    IF ~file.exists
    THEN [raised |-> FALSE, corpus_data |-> <<>>, vocab |-> EmptyCounter]
    ELSE CompileRowsPartial(file.rows, 1, <<>>, EmptyCounter)

\* the body of compile_corpus: open() raises when the file is missing
compile_corpus(file) ==
    IF ~file.exists
    THEN [raised |-> TRUE, corpus_data |-> <<>>, vocab |-> EmptyCounter]
    ELSE CompileRows(file.rows, 1, <<>>, EmptyCounter)

\* st.cache_data(max_entries=CACHE_SIZE): the store is a list of
\* [source, value], oldest first
CacheHas(c, s) == \E i \in 1..Len(c) : c[i].source = s

CacheGet(c, s) == c[CHOOSE i \in 1..Len(c) : c[i].source = s].value

\* a store that keeps every entry (no max_entries)
CachePutNoEvict(c, s, v) == Append(c, [source |-> s, value |-> v])

CachePut(c, s, v) ==
    LET added == Append(c, [source |-> s, value |-> v])
    IN  IF Len(added) > CACHE_SIZE
        THEN SubSeq(added, Len(added) - CACHE_SIZE + 1, Len(added))
        ELSE added

-----------------------------------------------------------------------------
(* find_matches *)

\* a variant with an exclusive upper bound
InRangeExclusive(score, rng) == score >= rng[1] /\ score < rng[2]

\* in_range = score >= complexity_range[0] and score <= complexity_range[1]
InRange(score, rng) == score >= rng[1] /\ score <= rng[2]

RECURSIVE IncAll(_, _)
IncAll(counter, keys) ==
    IF keys = {} THEN counter
    ELSE LET k == CHOOSE x \in keys : TRUE
         IN  IncAll(Inc(counter, k), keys \ {k})

RECURSIVE IncEach(_, _)
IncEach(counter, keyseq) ==
    IF Len(keyseq) = 0 THEN counter ELSE IncEach(Inc(counter, keyseq[1]), Tail(keyseq))

\* a variant that counts every occurrence
AddMatchesPerOccurrence(counter, match) ==
    IncEach(counter, [i \in 1..Len(match) |-> Lower(match[i])])

\* a variant that keeps the case of the matched strings
AddMatchesRaw(counter, match) == IncAll(counter, SetOf(match))

\* for m in set([m.lower() for m in match]): counter[m] += 1
AddMatches(counter, match) == IncAll(counter, {Lower(match[i]) : i \in 1..Len(match)})

\* a variant of the display filter with the cap off by one
DisplayAdmitsOneMore(display_texts, in_range) ==
    Len(display_texts) <= MAX_RETURNS /\ in_range

\* len(display_texts) < MAX_RETURNS and in_range
DisplayAdmits(display_texts, in_range) == Len(display_texts) < MAX_RETURNS /\ in_range

\* the texts the highlighting loop can produce for one entry, one per
\* iteration order of set(match)
StyledTexts(text, match) == {Strip(HighlightAll(o, text)) : o \in Orders(SetOf(match))}

\* the body of the loop "for entry in corpus": the results after the entry,
\* one per iteration order of set(match)
EntryStep(re, rng, entry, acc) ==
    LET text     == entry.text
        score    == entry.score
        in_range == InRange(score, rng)
        match    == FindAll(re, text)
    IN  IF Len(match) = 0 THEN {acc}
        ELSE LET dm  == AddMatches(acc.dataset_matches, match)
                 irm == IF in_range THEN AddMatches(acc.in_range_matches, match)
                        ELSE acc.in_range_matches
             IN  IF DisplayAdmits(acc.display_texts, in_range)
                 THEN {[dataset_matches |-> dm, in_range_matches |-> irm,
                        display_texts |-> Append(acc.display_texts, st)] :
                            st \in StyledTexts(text, match)}
                 ELSE {[dataset_matches |-> dm, in_range_matches |-> irm,
                        display_texts |-> acc.display_texts]}

RECURSIVE FindMatchesLoop(_, _, _, _, _)
FindMatchesLoop(re, rng, corpus, i, accs) ==
    IF i > Len(corpus) THEN accs
    ELSE FindMatchesLoop(re, rng, corpus, i + 1,
                         UNION {EntryStep(re, rng, corpus[i], acc) : acc \in accs})

\* find_matches(query, complexity_range, corpus): the set of results it can
\* return
find_matches(re, rng, corpus) ==
    FindMatchesLoop(re, rng, corpus, 1,
                    {[dataset_matches |-> EmptyCounter, in_range_matches |-> EmptyCounter,
                      display_texts |-> <<>>]})

-----------------------------------------------------------------------------
(* The tables and the message of the results column *)

\* the order of DataFrame.sort_values(by=[count, key], ascending=False):
\* both columns descending
RowBefore(a, b) ==
    \/ a.count > b.count
    \/ a.count = b.count /\ StrLess(b.key, a.key)

RECURSIVE SortRows(_)
SortRows(rows) ==
    IF rows = {} THEN <<>>
    ELSE LET first == CHOOSE r \in rows : \A o \in rows \ {r} : RowBefore(r, o)
         IN  <<first>> \o SortRows(rows \ {first})

\* pd.DataFrame({key: counter.keys(), count: counter.values()}).sort_values(...)
SortedTable(counter) == SortRows({[key |-> k, count |-> counter[k]] : k \in DOMAIN counter})

\* NULL RESULTS / POSITIVE RESULTS of the results column, tested on
\* entry_texts first
ResultsMessageDisplayFirst(dm, texts) ==
    IF Len(texts) = 0 THEN "no_results"
    ELSE IF DOMAIN dm # {} THEN "table" ELSE "no_results_in_range"

\* NULL RESULTS / POSITIVE RESULTS of the results column
ResultsMessage(dm, texts) ==
    IF DOMAIN dm = {} THEN "no_results"
    ELSE IF Len(texts) = 0 THEN "no_results_in_range"
    ELSE "table"

-----------------------------------------------------------------------------
(* The data folder and the user's inputs *)

\* "The cat sat."
TheCatSat ==
    << "T", "h", "e", " ", "c", "a", "t", " ", "s", "a", "t", "." >>

\* "The cats sat on cats."
TheCatsSat ==
    << "T", "h", "e", " ", "c", "a", "t", "s", " ", "s", "a", "t", " ", "o", "n", " ", "c", "a", "t", "s", "." >>

\* "Dogs ran."
DogsRan ==
    << "D", "o", "g", "s", " ", "r", "a", "n", "." >>

\* "Well-known, cats-and-dogs!"
WellKnown ==
    << "W", "e", "l", "l", "-", "k", "n", "o", "w", "n", ",", " ", "c", "a", "t", "s", "-", "a", "n", "d", "-", "d", "o", "g", "s", "!" >>

\* "Cat cat"
CatCat ==
    << "C", "a", "t", " ", "c", "a", "t" >>

\* "bad red"
BadRed ==
    << "b", "a", "d", " ", "r", "e", "d" >>

\* the texts of the rows of the generated file
Texts == {BadRed}

Scores == 0..MaxScore

\* a line of a .tsv file after the header: text TAB score, or a line without
\* a tab, or a line whose second column is not a number
Rows ==
    {[text |-> t, kind |-> "ok", score |-> sc] : t \in Texts, sc \in Scores}
    \cup {[text |-> DogsRan, kind |-> k, score |-> 0] : k \in {"notab", "badscore"}}

RECURSIVE SeqsUpTo(_, _)
SeqsUpTo(S, n) ==
    IF n = 0 THEN {<<>>}
    ELSE LET shorter == SeqsUpTo(S, n - 1)
         IN  shorter \cup {Append(q, x) : q \in {r \in shorter : Len(r) = n - 1}, x \in S}

MissingFile == [exists |-> FALSE, rows |-> <<>>]

\* a file whose only text has no alphabetic word: the corpus has an entry and
\* the vocabulary is empty
HyphensFile ==
    [exists |-> TRUE, rows |-> << [text |-> WellKnown, kind |-> "ok", score |-> 0] >>]

\* the files a source name can stand for
GeneratedFiles ==
    {MissingFile, HyphensFile}
        \cup {[exists |-> TRUE, rows |-> r] : r \in SeqsUpTo(Rows, MaxRows)}

\* the corpus of the scenarios of the specification, with scores
CatsFile ==
    [exists |-> TRUE,
     rows |-> << [text |-> TheCatSat, kind |-> "ok", score |-> 0],
                 [text |-> TheCatsSat, kind |-> "ok", score |-> 1],
                 [text |-> DogsRan, kind |-> "ok", score |-> 1],
                 [text |-> WellKnown, kind |-> "ok", score |-> 0],
                 [text |-> CatCat, kind |-> "ok", score |-> 0] >>]

\* corpus_names: the options of the Source radio
Sources == {"Generated", "Cats"}

\* ""
QEmpty == << >>

\* "cat"
QCat == << "c", "a", "t" >>

\* "cat*"
QCatStar == << "c", "a", "t", "*" >>

\* "*cat*"
QStarCatStar == << "*", "c", "a", "t", "*" >>

\* "*d"
QStarD == << "*", "d" >>

\* "^*"
QCaretStar == << "^", "*" >>

\* "*"
QStar == << "*" >>

\* "^"
QCaret == << "^" >>

\* "{2}"
QRepeat == << "{", "2", "}" >>

\* "a(b"
QParen == << "a", "(", "b" >>

\* the search terms the user types, after strip()
Queries ==
    {QEmpty, QCat, QCatStar, QStarCatStar, QStarD, QCaretStar, QStar, QCaret, QParen,
     QRepeat}

\* the values of the slider: lower <= upper
Ranges == {<<lo, hi>> : lo \in Scores, hi \in Scores} \cap {r \in Scores \X Scores : r[1] <= r[2]}

-----------------------------------------------------------------------------
(* The script run *)

NoOutputs ==
    /\ vocab_table = <<>>
    /\ searched = FALSE
    /\ dataset_matches = EmptyCounter
    /\ in_range_matches = EmptyCounter
    /\ entry_texts = <<>>
    /\ message = "none"
    /\ stats_table = <<>>
    /\ range_stats_table = <<>>
    /\ divisions = {}

\* the first run of the script, with the widgets' defaults: the first source
\* of the sorted names, an empty search term, the whole range
Init ==
    /\ files \in {[s \in Sources |-> IF s = "Cats" THEN CatsFile ELSE f] : f \in GeneratedFiles}
    /\ cache = <<>>
    /\ pc = "run"
    /\ source = "Cats"
    /\ query = QEmpty
    /\ complexity_range = <<0, MaxScore>>
    /\ ignorecase = TRUE
    /\ file_read = FALSE
    /\ corpus_data = <<>>
    /\ corpus_vocab = EmptyCounter
    /\ NoOutputs

\* a run starts with nothing displayed
ResetOutputs ==
    /\ vocab_table' = <<>>
    /\ searched' = FALSE
    /\ dataset_matches' = EmptyCounter
    /\ in_range_matches' = EmptyCounter
    /\ entry_texts' = <<>>
    /\ message' = "none"
    /\ stats_table' = <<>>
    /\ range_stats_table' = <<>>
    /\ divisions' = {}

\* a widget's value changes once the previous run has ended, and the script
\* runs again from the top
Rerun ==
    /\ pc \in {"done", "failed", "error"}
    /\ pc' = "run"
    /\ file_read' = FALSE
    /\ corpus_data' = <<>>
    /\ corpus_vocab' = EmptyCounter
    /\ ResetOutputs
    /\ UNCHANGED <<files, cache, ignorecase>>

\* st.radio("**Source**:", corpus_names)
SelectSource(s) ==
    /\ s # source
    /\ source' = s
    /\ Rerun
    /\ UNCHANGED <<query, complexity_range>>

\* st.text_input("**Search term**:").strip()
TypeQuery(q) ==
    /\ q # query
    /\ query' = q
    /\ Rerun
    /\ UNCHANGED <<source, complexity_range>>

\* st.select_slider(label = "**Complexity range**:")
MoveSlider(r) ==
    /\ r # complexity_range
    /\ complexity_range' = r
    /\ Rerun
    /\ UNCHANGED <<source, query>>

CompileUnchanged ==
    UNCHANGED <<files, source, query, complexity_range, ignorecase, vocab_table, searched,
                dataset_matches, in_range_matches, entry_texts, message, stats_table,
                range_stats_table, divisions>>

\* compile_corpus(source) is answered by the cache
CompileHit ==
    /\ pc = "run"
    /\ CacheHas(cache, source)
    /\ corpus_data' = CacheGet(cache, source).corpus_data
    /\ corpus_vocab' = CacheGet(cache, source).vocab
    /\ file_read' = FALSE
    /\ pc' = "compiled"
    /\ UNCHANGED cache
    /\ CompileUnchanged

\* compile_corpus(source) runs and returns; its value is stored
CompileMiss ==
    /\ pc = "run"
    /\ ~CacheHas(cache, source)
    /\ LET res == compile_corpus(files[source])
       IN  /\ ~res.raised
           /\ corpus_data' = res.corpus_data
           /\ corpus_vocab' = res.vocab
           /\ cache' = CachePut(cache, source,
                                [corpus_data |-> res.corpus_data, vocab |-> res.vocab])
    /\ file_read' = TRUE
    /\ pc' = "compiled"
    /\ CompileUnchanged

\* compile_corpus(source) raises: the run ends at line 127, the names
\* corpus_data and corpus_vocab are not bound
CompileFail ==
    /\ pc = "run"
    /\ ~CacheHas(cache, source)
    /\ compile_corpus(files[source]).raised
    /\ corpus_data' = <<>>
    /\ corpus_vocab' = EmptyCounter
    /\ file_read' = files[source].exists
    /\ pc' = "failed"
    /\ UNCHANGED cache
    /\ CompileUnchanged

\* CORPUS STATISTICS: the vocabulary table
CorpusStatistics ==
    /\ pc = "compiled"
    /\ vocab_table' = SortedTable(corpus_vocab)
    /\ divisions' = PercentColumn(corpus_vocab, SumValues(corpus_vocab))
    /\ pc' = "stats"
    /\ UNCHANGED <<files, cache, source, query, complexity_range, ignorecase, file_read,
                   corpus_data, corpus_vocab, searched, dataset_matches, in_range_matches,
                   entry_texts, message, stats_table, range_stats_table>>

NoSearch(msg) ==
    /\ message' = msg
    /\ pc' = "done"
    /\ UNCHANGED <<files, cache, source, query, complexity_range, ignorecase, file_read,
                   corpus_data, corpus_vocab, vocab_table, searched, dataset_matches,
                   in_range_matches, entry_texts, stats_table, range_stats_table,
                   divisions>>

\* if query != "" is false: nothing is shown
NoQuery ==
    /\ pc = "stats"
    /\ query = <<>>
    /\ NoSearch("none")

\* SEARCH TERM PROHIBITIONS, first branch
RejectProhibited ==
    /\ pc = "stats"
    /\ query # <<>>
    /\ HasProhibitedChar(query)
    /\ NoSearch("warn_characters")

\* SEARCH TERM PROHIBITIONS, second branch
RejectBare ==
    /\ pc = "stats"
    /\ query # <<>>
    /\ ~HasProhibitedChar(query)
    /\ IsBareWildcard(query)
    /\ NoSearch("warn_bare_wildcard")

\* LEGITIMATE SEARCH, re.compile raises: nothing catches re.error, the run
\* ends at line 201
CompileError ==
    /\ pc = "stats"
    /\ query # <<>>
    /\ ~HasProhibitedChar(query)
    /\ ~IsBareWildcard(query)
    /\ CompileRaises(query)
    /\ pc' = "error"
    /\ UNCHANGED <<files, cache, source, query, complexity_range, ignorecase, file_read,
                   corpus_data, corpus_vocab, vocab_table, searched, dataset_matches,
                   in_range_matches, entry_texts, message, stats_table, range_stats_table,
                   divisions>>

\* the COMPLEXITY RANGE STATS columns built over the values of dataset_matches
\* instead of those of in_range_matches
SearchStatsDivisionsOverDataset(dataset, in_range, corpus_entry_count) ==
    IF DOMAIN dataset = {} THEN {}
    ELSE PercentColumn(dataset, SumValues(dataset))
            \cup PercentColumn(dataset, corpus_entry_count)
            \cup PercentColumn(dataset, SumValues(in_range))
            \cup PercentColumn(dataset, corpus_entry_count)

\* DISPLAY SEARCH STATISTICS: the "%" and "% of source" columns of the two
\* tables, built only under "if dataset_matches:"
SearchStatsDivisions(dataset, in_range, corpus_entry_count) ==
    IF DOMAIN dataset = {} THEN {}
    ELSE PercentColumn(dataset, SumValues(dataset))
            \cup PercentColumn(dataset, corpus_entry_count)
            \cup PercentColumn(in_range, SumValues(in_range))
            \cup PercentColumn(in_range, corpus_entry_count)

\* the statistics tabs after a search: both tables, only if dataset_matches
ShowSearch(res) ==
    /\ searched' = TRUE
    /\ dataset_matches' = res.dataset_matches
    /\ in_range_matches' = res.in_range_matches
    /\ entry_texts' = res.display_texts
    /\ message' = ResultsMessage(res.dataset_matches, res.display_texts)
    /\ stats_table' =
          IF DOMAIN res.dataset_matches # {} THEN SortedTable(res.dataset_matches) ELSE <<>>
    /\ range_stats_table' =
          IF DOMAIN res.dataset_matches # {} THEN SortedTable(res.in_range_matches) ELSE <<>>
    /\ divisions' =
          divisions \cup SearchStatsDivisions(res.dataset_matches, res.in_range_matches,
                                              Len(corpus_data))
    /\ pc' = "done"

\* LEGITIMATE SEARCH: compile the pattern, call find_matches, show the results
LegitimateSearch ==
    /\ pc = "stats"
    /\ query # <<>>
    /\ ~HasProhibitedChar(query)
    /\ ~IsBareWildcard(query)
    /\ ~CompileRaises(query)
    /\ \E res \in find_matches(CompilePattern(query, TRUE), complexity_range, corpus_data) :
          ShowSearch(res)
    /\ UNCHANGED <<files, cache, source, query, complexity_range, ignorecase, file_read,
                   corpus_data, corpus_vocab, vocab_table>>

Next ==
    \/ \E s \in Sources : SelectSource(s)
    \/ \E q \in Queries : TypeQuery(q)
    \/ \E r \in Ranges : MoveSlider(r)
    \/ CompileHit
    \/ CompileMiss
    \/ CompileFail
    \/ CorpusStatistics
    \/ NoQuery
    \/ RejectProhibited
    \/ RejectBare
    \/ CompileError
    \/ LegitimateSearch

Spec == Init /\ [][Next]_vars

-----------------------------------------------------------------------------
(* find_matches as a function of its arguments: any compiled pattern, with   *)
(* or without re.IGNORECASE, any range, any corpus compile_corpus can return *)

\* the search terms that reach find_matches
AcceptedQueries ==
    {q \in Queries :
        q # <<>> /\ ~HasProhibitedChar(q) /\ ~IsBareWildcard(q) /\ ~CompileRaises(q)}

\* the corpora compile_corpus returns for the files of the model
Corpora ==
    {compile_corpus(f).corpus_data : f \in {g \in GeneratedFiles \cup {CatsFile} :
                                               ~compile_corpus(g).raised}}

InitFM ==
    /\ files = [s \in Sources |-> MissingFile]
    /\ cache = <<>>
    /\ pc = "call"
    /\ source = "Cats"
    /\ query \in AcceptedQueries
    /\ complexity_range \in Ranges
    /\ ignorecase \in BOOLEAN
    /\ file_read = FALSE
    /\ corpus_data \in Corpora
    /\ corpus_vocab = EmptyCounter
    /\ NoOutputs

\* dataset_matches, in_range_matches, entry_texts = find_matches(...)
ApplyFindMatches ==
    /\ pc = "call"
    /\ \E res \in find_matches(CompilePattern(query, ignorecase), complexity_range,
                               corpus_data) :
          /\ dataset_matches' = res.dataset_matches
          /\ in_range_matches' = res.in_range_matches
          /\ entry_texts' = res.display_texts
    /\ searched' = TRUE
    /\ pc' = "returned"
    /\ UNCHANGED <<files, cache, source, query, complexity_range, ignorecase, file_read,
                   corpus_data, corpus_vocab, vocab_table, message, stats_table,
                   range_stats_table, divisions>>

NextFM == ApplyFindMatches

SpecFM == InitFM /\ [][NextFM]_vars

-----------------------------------------------------------------------------
(* What a finished search was about, restated from the corpus              *)

\* the pattern of the search of the current state
SearchPattern == CompilePattern(query, ignorecase)

\* one record per entry of the corpus: its index, its score, its text, the
\* matched strings as they stand in the text, and their lowercased forms
Analysis ==
    {LET raw == FindAll(SearchPattern, corpus_data[i].text)
     IN  [i |-> i, score |-> corpus_data[i].score, text |-> corpus_data[i].text,
          raw |-> raw, keys |-> {Lower(raw[j]) : j \in 1..Len(raw)}] :
        i \in 1..Len(corpus_data)}

\* the entries with at least one match
Matching(A) == {e \in A : Len(e.raw) > 0}

\* the matching entries whose score lies in the closed range
MatchingInRange(A) ==
    {e \in Matching(A) : /\ complexity_range[1] <= e.score
                         /\ e.score <= complexity_range[2]}

\* the lowercased matched strings of a set of entries
KeysIn(S) == UNION {e.keys : e \in S}

\* the number of matches of entry e whose lowercased string is k
OccurrencesIn(e, k) == Cardinality({j \in 1..Len(e.raw) : Lower(e.raw[j]) = k})

\* the total number of occurrences of k over the entries of S
RECURSIVE Occurrences(_, _)
Occurrences(S, k) ==
    IF S = {} THEN 0
    ELSE LET e == CHOOSE x \in S : TRUE IN OccurrencesIn(e, k) + Occurrences(S \ {e}, k)

\* the number of entries of S in which k matches at least once
EntriesWith(S, k) == Cardinality({e \in S : k \in e.keys})

\* the j-th entry of S in corpus order
Nth(S, j) == CHOOSE e \in S : Cardinality({x \in S : x.i < e.i}) = j - 1

Min(a, b) == IF a < b THEN a ELSE b

-----------------------------------------------------------------------------
(* C1 *)

-----------------------------------------------------------------------------
(* C2 *)

C2_Prohibited(q) ==
    \E i \in 1..Len(q) : q[i] \in {"\\", "(", ")", "[", "]", "?", "$", "+"}

C2_Bare(q) == q = <<"*">> \/ q = <<"^">>

\* C2: find_matches is never called for a query with one of the characters
\* \ ( ) [ ] ? $ + or for the bare query "*" or "^"; every other non-empty
\* query is searched; the two rejections show two different warnings, and
\* neither is a "no results" message.
C2_ValidationPrecedesSearch ==
    /\ searched => query # <<>> /\ ~C2_Prohibited(query) /\ ~C2_Bare(query)
    /\ (pc \in {"done", "error"} /\ query # <<>>) =>
          /\ C2_Prohibited(query) => ~searched /\ message = "warn_characters"
          /\ (~C2_Prohibited(query) /\ C2_Bare(query)) =>
                ~searched /\ message = "warn_bare_wildcard"
          /\ (~C2_Prohibited(query) /\ ~C2_Bare(query)) =>
                searched /\ message \in {"no_results", "no_results_in_range", "table"}

\* a run that ended on the warning about characters, without a search
C2_Witness ==
    /\ pc = "done"
    /\ C2_Prohibited(query)
    /\ message = "warn_characters"
    /\ ~searched

-----------------------------------------------------------------------------
(* C3 *)

\* C3: an entry adds to in_range_matches only if lower <= score <= upper,
\* both bounds inclusive; every matching entry adds to dataset_matches
\* whatever its score; so in_range_matches[k] <= dataset_matches[k] and the
\* keys of in_range_matches are keys of dataset_matches.
C3_RangeFilter ==
    searched =>
        LET M == Matching(Analysis)
            R == MatchingInRange(Analysis)
        IN  /\ DOMAIN in_range_matches = KeysIn(R)
            /\ \A k \in DOMAIN in_range_matches : in_range_matches[k] = EntriesWith(R, k)
            /\ \A k \in DOMAIN dataset_matches : dataset_matches[k] = EntriesWith(M, k)
            /\ DOMAIN in_range_matches \subseteq DOMAIN dataset_matches
            /\ \A k \in DOMAIN in_range_matches : in_range_matches[k] <= dataset_matches[k]

\* a search with matching entries on the lower and on the upper bound,
\* counted in range, and a matching entry outside the range, counted in the
\* dataset only
C3_Witness ==
    /\ searched
    /\ LET R == MatchingInRange(Analysis)
       IN  /\ \E e \in R : e.score = complexity_range[2]
           /\ \E e \in R : e.score = complexity_range[1]
    /\ \E k \in DOMAIN in_range_matches : in_range_matches[k] < dataset_matches[k]

-----------------------------------------------------------------------------
(* C4 *)

\* C4: display_texts holds exactly the first min(MAX_RETURNS, k) of the k
\* entries that match and lie in the range, in corpus order; its length never
\* exceeds MAX_RETURNS; the matching entries met after the cap still count in
\* dataset_matches and in_range_matches.
C4_DisplayCapture ==
    searched =>
        LET M == Matching(Analysis)
            R == MatchingInRange(Analysis)
        IN  /\ Len(entry_texts) <= MAX_RETURNS
            /\ Len(entry_texts) = Min(MAX_RETURNS, Cardinality(R))
            /\ \A j \in 1..Len(entry_texts) :
                  LET e == Nth(R, j) IN entry_texts[j] \in StyledTexts(e.text, e.raw)
            /\ \A k \in KeysIn(M) : /\ k \in DOMAIN dataset_matches
                                    /\ dataset_matches[k] = EntriesWith(M, k)
            /\ \A k \in KeysIn(R) : /\ k \in DOMAIN in_range_matches
                                    /\ in_range_matches[k] = EntriesWith(R, k)

\* a search with more matching entries in the range than the cap, and a
\* matching entry outside the range before the second displayed one
C4_Witness ==
    /\ searched
    /\ Len(entry_texts) = MAX_RETURNS
    /\ LET M == Matching(Analysis)
           R == MatchingInRange(Analysis)
       IN  /\ Cardinality(R) > MAX_RETURNS
           /\ \E e \in M \ R : e.i < Nth(R, 2).i

-----------------------------------------------------------------------------
(* C5 *)

\* text.replace("-", " ")
C5_ReplaceHyphens(t) == [i \in 1..Len(t) |-> IF t[i] = "-" THEN " " ELSE t[i]]

\* the vocabulary of a corpus when the hyphens of every text are replaced by
\* spaces before the punctuation is stripped and the text is split
RECURSIVE C5_HyphenSplitVocab(_, _, _)
C5_HyphenSplitVocab(corpus, i, vocab) ==
    IF i > Len(corpus) THEN vocab
    ELSE C5_HyphenSplitVocab(corpus, i + 1,
            CountWords(vocab, Split(StripPunctuation(C5_ReplaceHyphens(corpus[i].text)))))

\* C5: compile_corpus replaces hyphens with spaces before tokenising, so the
\* vocabulary of a compiled corpus counts every alphabetic part of a
\* hyphenated compound ("Well-known, cats-and-dogs!" adds well, known, cats,
\* and, dogs, once each).
C5_HyphenPartsCounted ==
    pc \in {"compiled", "stats", "done"} =>
        corpus_vocab = C5_HyphenSplitVocab(corpus_data, 1, EmptyCounter)

-----------------------------------------------------------------------------
(* C6 *)

C6_CountDescKeyAsc(table) ==
    \A i \in 1..Len(table) : \A j \in 1..Len(table) :
        i < j => \/ table[i].count > table[j].count
                 \/ /\ table[i].count = table[j].count
                    /\ StrLess(table[i].key, table[j].key)

\* C6: the two match-statistics tables and the vocabulary table are ordered
\* by count descending, and rows of equal count by token ascending.
C6_TablesSorted ==
    /\ C6_CountDescKeyAsc(vocab_table)
    /\ C6_CountDescKeyAsc(stats_table)
    /\ C6_CountDescKeyAsc(range_stats_table)

-----------------------------------------------------------------------------
(* C7 *)

\* the text is plain characters and markers OPEN_TAG plain CLOSE_TAG: no
\* marker inside a marker, no broken marker
RECURSIVE C7_WellFormed(_, _, _)
C7_WellFormed(t, i, inside) ==
    IF i >= Len(t) THEN ~inside
    ELSE IF ~inside /\ StartsWithAt(t, i, OPEN_TAG)
         THEN C7_WellFormed(t, i + Len(OPEN_TAG), TRUE)
    ELSE IF inside /\ StartsWithAt(t, i, CLOSE_TAG)
         THEN C7_WellFormed(t, i + Len(CLOSE_TAG), FALSE)
    ELSE IF t[i + 1] \in {"<", ">"} THEN FALSE
    ELSE C7_WellFormed(t, i + 1, inside)

\* the text without its markers
RECURSIVE C7_Unmarked(_, _)
C7_Unmarked(t, i) ==
    IF i >= Len(t) THEN <<>>
    ELSE IF StartsWithAt(t, i, OPEN_TAG) THEN C7_Unmarked(t, i + Len(OPEN_TAG))
    ELSE IF StartsWithAt(t, i, CLOSE_TAG) THEN C7_Unmarked(t, i + Len(CLOSE_TAG))
    ELSE <<t[i + 1]>> \o C7_Unmarked(t, i + 1)

\* the number of markers of the text
RECURSIVE C7_Markers(_, _)
C7_Markers(t, i) ==
    IF i >= Len(t) THEN 0
    ELSE IF StartsWithAt(t, i, OPEN_TAG) THEN 1 + C7_Markers(t, i + Len(OPEN_TAG))
    ELSE C7_Markers(t, i + 1)

\* C7: in every displayed entry, whatever the order in which the set of its
\* matched strings was processed, each whole-token occurrence of a matched
\* string is inside exactly one highlight marker, no marker is nested in
\* another and no character of a marker is itself wrapped: the text is well
\* formed, it is the entry's text once the markers are taken away, and it has
\* one marker per match.
C7_NoDoubleWrap ==
    searched =>
        LET R == MatchingInRange(Analysis)
        IN  \A j \in 1..Len(entry_texts) :
                LET e == Nth(R, j)
                IN  /\ C7_WellFormed(entry_texts[j], 0, FALSE)
                    /\ C7_Unmarked(entry_texts[j], 0) = Strip(e.text)
                    /\ C7_Markers(entry_texts[j], 0) = Len(e.raw)

-----------------------------------------------------------------------------
(* C8 *)

-----------------------------------------------------------------------------
(* C9 *)

\* the file is missing, or a row after the header has no tab or a
\* non-numeric score
C9_BadFile(f) ==
    \/ ~f.exists
    \/ \E i \in 1..Len(f.rows) : f.rows[i].kind \in {"notab", "badscore"}

\* C9: if the file of the selected source is missing or has a bad row,
\* compile_corpus raises: the run has no corpus (no partly built entry list
\* or vocabulary), nothing is stored in the cache for the source, and no
\* search is made in the run.
C9_LoadFailureAllOrNothing ==
    /\ (pc # "run" /\ C9_BadFile(files[source])) =>
          /\ pc = "failed"
          /\ corpus_data = <<>>
          /\ corpus_vocab = EmptyCounter
          /\ ~searched
          /\ message = "none"
    /\ \A i \in 1..Len(cache) : ~C9_BadFile(files[cache[i].source])
    /\ pc = "failed" => C9_BadFile(files[source])

\* a failed run on a file whose first row is good and a later row bad
C9_Witness ==
    /\ pc = "failed"
    /\ files[source].exists
    /\ Len(files[source].rows) >= 2
    /\ files[source].rows[1].kind = "ok"
    /\ ~CacheHas(cache, source)

-----------------------------------------------------------------------------
(* C10 *)

\* C10: after an accepted query, "no results" is shown iff no entry of the
\* corpus matches; "no results in that complexity range" iff some entry
\* matches and no matching entry has its score in the range; otherwise the
\* results table; display_texts is empty iff in_range_matches is.
C10_EmptyResultOutcomes ==
    (pc = "done" /\ searched) =>
        LET M == Matching(Analysis)
            R == MatchingInRange(Analysis)
        IN  /\ message = "no_results" <=> M = {}
            /\ message = "no_results_in_range" <=> (M # {} /\ R = {})
            /\ message = "table" <=> R # {}
            /\ entry_texts = <<>> <=> DOMAIN in_range_matches = {}

\* a search whose matches all lie outside the chosen range
C10_Witness ==
    /\ pc = "done"
    /\ searched
    /\ message = "no_results_in_range"
    /\ Matching(Analysis) # {}

-----------------------------------------------------------------------------
(* C11 *)

\* C11: no statistics computation divides by zero: every division the run
\* evaluates for a "%" column (by corpus_token_count, match_count,
\* in_range_match_count or corpus_entry_count) has a strictly positive
\* divisor, whatever the corpus, the query and the range.
C11_NoDivisionByZero ==
    /\ \A d \in divisions : d.divisor > 0
    /\ pc \in {"stats", "done", "error"} =>
          PercentColumn(corpus_vocab, SumValues(corpus_vocab)) \subseteq divisions
    /\ (pc = "done" /\ searched) =>
          SearchStatsDivisions(dataset_matches, in_range_matches, Len(corpus_data))
             \subseteq divisions

\* a search with matches in the dataset and none in the range: the tables are
\* built, in_range_match_count is 0, and divisions were evaluated
C11_Witness ==
    /\ pc = "done"
    /\ searched
    /\ DOMAIN dataset_matches # {}
    /\ SumValues(in_range_matches) = 0
    /\ \E d \in divisions : d.divisor = SumValues(dataset_matches)

-----------------------------------------------------------------------------
(* C12 *)

\* what compile_corpus builds from the file of source s
C12_Compiled(s) ==
    LET res == compile_corpus(files[s])
    IN  [raised |-> res.raised,
         value |-> [corpus_data |-> res.corpus_data, vocab |-> res.vocab]]

\* the cache holds at most CACHE_SIZE corpora, each the one compiled from the
\* file of its source, and the corpus of a run is the cached one of its source
C12_CacheState ==
    /\ Len(cache) <= CACHE_SIZE
    /\ \A i \in 1..Len(cache) :
          LET built == C12_Compiled(cache[i].source)
          IN  ~built.raised /\ cache[i].value = built.value
    /\ pc \in {"compiled", "stats", "done", "error"} =>
          /\ CacheHas(cache, source)
          /\ corpus_data = CacheGet(cache, source).corpus_data
          /\ corpus_vocab = CacheGet(cache, source).vocab

\* a step that ends compile_corpus(source): answered by the cache without
\* opening the file when the source is cached, and otherwise built from the
\* file and stored in place of the previous corpus; no other step writes
C12_CacheStep ==
    /\ cache' # cache =>
          /\ pc = "run" /\ pc' = "compiled"
          /\ ~CacheHas(cache, source)
    /\ (pc = "run" /\ pc' = "compiled" /\ CacheHas(cache, source)) =>
          /\ ~file_read'
          /\ cache' = cache
          /\ corpus_data' = CacheGet(cache, source).corpus_data
          /\ corpus_vocab' = CacheGet(cache, source).vocab
    /\ (pc = "run" /\ pc' = "compiled" /\ ~CacheHas(cache, source)) =>
          /\ file_read'
          /\ cache' = <<[source |-> source, value |-> C12_Compiled(source).value]>>
          /\ \A i \in 1..Len(cache) : ~CacheHas(cache', cache[i].source)

-----------------------------------------------------------------------------
(* C13 *)

\* C13: for a fixed corpus, compiled pattern and range, every run of
\* find_matches returns the same dataset_matches, in_range_matches and
\* display_texts: the result does not depend on the order in which the set
\* of the matched strings of an entry is iterated.
C13_SearchDeterministic ==
    searched =>
        \A res \in find_matches(SearchPattern, complexity_range, corpus_data) :
            /\ res.dataset_matches = dataset_matches
            /\ res.in_range_matches = in_range_matches
            /\ res.display_texts = entry_texts

====
